---- MODULE Spec2Model ----
(***************************************************************************)
(* Netlist fan-in cones (kernel/algo.h) and the synth_intel script pass.   *)
(*                                                                         *)
(* A module is a list of cells in enumeration order; Netlist builds the    *)
(* driver index (sigbit_driver_map, cell_inputs_map) over it, and the      *)
(* NetlistConeWireIter / NetlistConeCellIter iterators walk that index.    *)
(***************************************************************************)
EXTENDS Naturals, Sequences, FiniteSets, TLC

\* ------------------------------------------------------------------ bounds

\* Number of cells of the module (module->cells() enumerates 1..NCells).
NCells == 2

\* Number of single-bit signals of the module.
NBits == 5

\* Widest signal connected to an input port.
MaxWidth == 2

\* Widest signal connected to an output port.
MaxOutWidth == 1

\* Number of iterators alive at once over one Netlist.
NIters == 2

\* Number of bits the cells connect to where several iterators interleave.
ParBits == 3

\* Number of arguments given to synth_intel after the command name.
MaxArgs == 3

\* ------------------------------------------------------------------ values

Cells == 1..NCells

Bits == 1..NBits

Iters == 1..NIters

\* A SigBit value that is no bit of the module: what a read through a
\* past-the-end std::set iterator may produce.
WildBit == NBits + 1

GarbageBits == Bits \cup {WildBit}

\* Cell types: "$and" stands for the types the CellTypes table knows,
\* "blackbox" for those it does not know.
CellTypeNames == {"$and", "blackbox"}

\* The strictly ascending sequences over S of length at most n: the signals
\* a port may carry (std::set insertion makes order and repetition of the
\* bits of one signal immaterial; sigmap may still merge two of them).
AscSeqs(S, n) ==
    { s \in UNION { [1..k -> S] : k \in 0..n } :
        \A i \in 1..Len(s) : \A j \in 1..Len(s) : i < j => s[i] < s[j] }

\* RTLIL::Cell: its type and its port connections (cell->connections()):
\* port A carries inputs, port Y is what CellTypes calls an output.
CellRecords ==
    [type : CellTypeNames,
     conn : { [A |-> a, Y |-> y] : a \in AscSeqs(Bits, MaxWidth),
                                      y \in AscSeqs(Bits, MaxOutWidth) }]

\* SigMap: the canonical representative of every bit. Either no wires are
\* connected, or the highest bit is an alias of bit 1.
SigMaps ==
    { [b \in Bits |-> b],
      [b \in Bits |-> IF b = NBits THEN 1 ELSE b] }

VARIABLES
    module,             \* RTLIL::Module: Cells -> CellRecords
    sigmap,             \* Netlist::sigmap
    sigbit_driver_map,  \* Netlist::sigbit_driver_map: canonical bit -> cell
    cell_inputs_map,    \* Netlist::cell_inputs_map: cell -> set of canonical bits
    iters,              \* the iterators of the callers: Iters -> iterator state
    args,               \* the argument vector handed to SynthIntelPass::execute
    full_selection,     \* design->full_selection()
    pass                \* SynthIntelPass: its flags and what execute did

vars ==
    <<module, sigmap, sigbit_driver_map, cell_inputs_map, iters,
      args, full_selection, pass>>

netvars == <<module, sigmap, sigbit_driver_map, cell_inputs_map>>

synthvars == <<args, full_selection, pass>>

\* ------------------------------------------------------- Netlist (algo.h)

\* CellTypes::cell_known: is the type in the table.
cell_known(type) == type = "$and"

\* CellTypes::cell_output: is the port an output of a type in the table.
cell_output(type, port) == type = "$and" /\ port = "Y"

\* sigmap(port.second).to_sigbit_vector(), as the set that
\* std::set::insert(bits.begin(), bits.end()) adds.
to_sigbit_set(sm, sig) == { sm[sig[i]] : i \in 1..Len(sig) }

\* The outputs set that the port loop of setup_netlist collects for a cell.
cell_outputs(cell, sm) ==
    UNION { to_sigbit_set(sm, cell.conn[p]) :
              p \in { q \in DOMAIN cell.conn : cell_output(cell.type, q) } }

\* The inputs set that the port loop of setup_netlist collects for a cell.
cell_inputs(cell, sm) ==
    UNION { to_sigbit_set(sm, cell.conn[p]) :
              p \in { q \in DOMAIN cell.conn : ~cell_output(cell.type, q) } }

\* setup_cell without the ct.cell_known test: every cell is indexed.
setup_cell_anytype(net, mod, sm, c) ==
    LET cell    == mod[c]
        inputs  == cell_inputs(cell, sm)
        outputs == cell_outputs(cell, sm)
    IN  [drv |-> [b \in DOMAIN net.drv \cup outputs |->
                     IF b \in outputs THEN c ELSE net.drv[b]],
         inp |-> [k \in DOMAIN net.inp \cup {c} |->
                     IF k = c THEN inputs ELSE net.inp[k]]]

\* setup_cell that keeps the driver a bit already has (insert, not assign).
setup_cell_firstwins(net, mod, sm, c) ==
    LET cell    == mod[c]
        inputs  == cell_inputs(cell, sm)
        outputs == cell_outputs(cell, sm)
    IN  IF cell_known(cell.type)
        THEN [drv |-> [b \in DOMAIN net.drv \cup outputs |->
                          IF b \in DOMAIN net.drv THEN net.drv[b] ELSE c],
              inp |-> [k \in DOMAIN net.inp \cup {c} |->
                          IF k = c THEN inputs ELSE net.inp[k]]]
        ELSE net

\* setup_cell that stores cell_inputs_map[cell] only when the cell has an
\* input bit.
setup_cell_skipempty(net, mod, sm, c) ==
    LET cell    == mod[c]
        inputs  == cell_inputs(cell, sm)
        outputs == cell_outputs(cell, sm)
    IN  IF cell_known(cell.type)
        THEN [drv |-> [b \in DOMAIN net.drv \cup outputs |->
                          IF b \in outputs THEN c ELSE net.drv[b]],
              inp |-> IF inputs = {} THEN net.inp
                      ELSE [k \in DOMAIN net.inp \cup {c} |->
                              IF k = c THEN inputs ELSE net.inp[k]]]
        ELSE net

\* One iteration of the cell loop of setup_netlist on the index net.
setup_cell(net, mod, sm, c) ==
    LET cell    == mod[c]
        inputs  == cell_inputs(cell, sm)
        outputs == cell_outputs(cell, sm)
    IN  IF cell_known(cell.type)
        THEN [drv |-> [b \in DOMAIN net.drv \cup outputs |->
                          IF b \in outputs THEN c ELSE net.drv[b]],
              inp |-> [k \in DOMAIN net.inp \cup {c} |->
                          IF k = c THEN inputs ELSE net.inp[k]]]
        ELSE net

RECURSIVE setup_upto(_, _, _)
\* The cell loop of setup_netlist after its first n iterations.
setup_upto(mod, sm, n) ==
    IF n = 0 THEN [drv |-> << >>, inp |-> << >>]
    ELSE setup_cell(setup_upto(mod, sm, n - 1), mod, sm, n)

\* Netlist::setup_netlist over the whole module.
setup_netlist(mod, sm) == setup_upto(mod, sm, NCells)

RECURSIVE SortedSeq(_)
\* The elements of a std::set<SigBit> in iteration order.
SortedSeq(S) ==
    IF S = {} THEN << >>
    ELSE LET m == CHOOSE x \in S : \A y \in S : x <= y
         IN  <<m>> \o SortedSeq(S \ {m})

\* inputs.begin() .. inputs.end() of net.cell_inputs_map.at(c).
InputsOf(c) == SortedSeq(cell_inputs_map[c])

\* ----------------------------------------------- iterators (algo.h)

\* A slot that holds no iterator. Beside the members of the iterator a slot
\* records what the caller has seen of it: the elements the range-for
\* received (emitted), the ++ calls made before end (advances) and the cells
\* for which a frame was pushed, in push order (expanded).
NoIter ==
    [kind |-> "none", start |-> WildBit, sig |-> WildBit, sentinel |-> TRUE,
     dfs_path_stack |-> << >>, cells_visited |-> {}, status |-> "ok",
     emitted |-> << >>, advances |-> 0, expanded |-> << >>]

\* NetlistConeWireIter(net, sig) that sets sentinel(true), as the constructor
\* of the end iterator does.
NetlistConeWireIter_sentinel(kind, sig) ==
    [kind |-> kind, start |-> sig, sig |-> sig, sentinel |-> TRUE,
     dfs_path_stack |-> << >>, cells_visited |-> {}, status |-> "ok",
     emitted |-> << >>, advances |-> 0, expanded |-> << >>]

\* NetlistConeWireIter(net, sig): sentinel(false), empty stack and set.
NetlistConeWireIter(kind, sig) ==
    [kind |-> kind, start |-> sig, sig |-> sig, sentinel |-> FALSE,
     dfs_path_stack |-> << >>, cells_visited |-> {}, status |-> "ok",
     emitted |-> << >>, advances |-> 0, expanded |-> << >>]

\* dfs_path_stack.pop()
Pop(stack) == SubSeq(stack, 1, Len(stack) - 1)

RECURSIVE next_sig_in_dag(_)
\* next_sig_in_dag that assigns sentinel = !sentinel where the stack is
\* empty.
next_sig_in_dag_toggle(it) ==
    IF it.dfs_path_stack = << >>
    THEN {[it EXCEPT !.sentinel = ~@]}
    ELSE LET n      == Len(it.dfs_path_stack)
             top    == it.dfs_path_stack[n]
             inputs == InputsOf(top.cell)
         IN  IF top.pos > Len(inputs)
             THEN {[it EXCEPT !.status = "hung"], [it EXCEPT !.status = "fault"]}
                  \cup next_sig_in_dag([it EXCEPT !.dfs_path_stack = Pop(@)])
             ELSE IF top.pos + 1 <= Len(inputs)
             THEN {[it EXCEPT !.dfs_path_stack[n].pos = top.pos + 1,
                              !.sig = inputs[top.pos + 1]]}
             ELSE next_sig_in_dag([it EXCEPT !.dfs_path_stack = Pop(@)])

\* NetlistConeWireIter::next_sig_in_dag: the set of states it may leave the
\* iterator in. A frame is the cell whose inputs it ranges over and the
\* position of its cursor; the guard (end) is position Len + 1. Incrementing
\* a cursor that already is at end() is undefined: the call may never
\* return, may fault, or may find the cursor equal to the guard again.
next_sig_in_dag(it) ==
    IF it.dfs_path_stack = << >>
    THEN {[it EXCEPT !.sentinel = TRUE]}
    ELSE LET n      == Len(it.dfs_path_stack)
             top    == it.dfs_path_stack[n]
             inputs == InputsOf(top.cell)
         IN  IF top.pos > Len(inputs)
             THEN {[it EXCEPT !.status = "hung"], [it EXCEPT !.status = "fault"]}
                  \cup next_sig_in_dag([it EXCEPT !.dfs_path_stack = Pop(@)])
             ELSE IF top.pos + 1 <= Len(inputs)
             THEN {[it EXCEPT !.dfs_path_stack[n].pos = top.pos + 1,
                              !.sig = inputs[top.pos + 1]]}
             ELSE next_sig_in_dag([it EXCEPT !.dfs_path_stack = Pop(@)])

\* operator++ without cells_visited.insert(drv).
WireInc_noinsert(it) ==
    IF it.sig \in DOMAIN sigbit_driver_map
    THEN LET drv == sigbit_driver_map[it.sig]
         IN  IF drv \notin it.cells_visited
             THEN IF drv \notin DOMAIN cell_inputs_map
                  THEN {[it EXCEPT !.status = "out_of_range"]}
                  ELSE LET inputs == InputsOf(drv)
                           pushed ==
                             [it EXCEPT
                                !.dfs_path_stack =
                                    Append(@, [cell |-> drv, pos |-> 1]),
                                !.expanded = Append(@, drv)]
                       IN  IF inputs # << >>
                           THEN {[pushed EXCEPT !.sig = inputs[1]]}
                           ELSE {[pushed EXCEPT !.sig = g] : g \in GarbageBits}
                                \cup {[pushed EXCEPT !.status = "fault"]}
             ELSE next_sig_in_dag(it)
    ELSE next_sig_in_dag(it)

\* NetlistConeWireIter::operator++: the set of states it may leave the
\* iterator in. Reading *begin() of an empty input set is undefined: sig
\* receives whatever is stored there, or the read faults.
WireInc(it) ==
    IF it.sig \in DOMAIN sigbit_driver_map
    THEN LET drv == sigbit_driver_map[it.sig]
         IN  IF drv \notin it.cells_visited
             THEN IF drv \notin DOMAIN cell_inputs_map
                  THEN {[it EXCEPT !.status = "out_of_range"]}
                  ELSE LET inputs == InputsOf(drv)
                           pushed ==
                             [it EXCEPT
                                !.dfs_path_stack =
                                    Append(@, [cell |-> drv, pos |-> 1]),
                                !.cells_visited = @ \cup {drv},
                                !.expanded = Append(@, drv)]
                       IN  IF inputs # << >>
                           THEN {[pushed EXCEPT !.sig = inputs[1]]}
                           ELSE {[pushed EXCEPT !.sig = g] : g \in GarbageBits}
                                \cup {[pushed EXCEPT !.status = "fault"]}
             ELSE next_sig_in_dag(it)
    ELSE next_sig_in_dag(it)

\* NetlistConeCellIter::has_driver_cell
has_driver_cell(s) == s \in DOMAIN sigbit_driver_map

\* The loop test of operator++ that returns at every bit that has a driver,
\* visited or not.
CellIncStops_anydriver(r) ==
    \/ r.status # "ok"
    \/ r.sentinel
    \/ has_driver_cell(r.sig)

\* The test that ends the loop of NetlistConeCellIter::operator++.
CellIncStops(r) ==
    \/ r.status # "ok"
    \/ r.sentinel
    \/ /\ has_driver_cell(r.sig)
       /\ sigbit_driver_map[r.sig] \notin r.cells_visited

RECURSIVE CellInc(_)
\* NetlistConeCellIter::operator++: advance sig_iter until it is at end or
\* at a bit whose driver has not been visited.
CellInc(it) ==
    UNION { IF CellIncStops(r) THEN {r} ELSE CellInc(r) : r \in WireInc(it) }

\* NetlistConeCellIter(net, sig): skips ahead when sig has no driver.
NetlistConeCellIter(sig) ==
    LET it == NetlistConeWireIter("cell", sig)
    IN  IF ~it.sentinel /\ ~has_driver_cell(it.sig) THEN CellInc(it) ELSE {it}

\* What a range-for over the iterable receives at the iterator's position:
\* nothing once it != end() is false, else operator*.
Yield(it) ==
    IF it.status # "ok" \/ it.sentinel THEN it
    ELSE IF it.kind = "wire" THEN [it EXCEPT !.emitted = Append(@, it.sig)]
    ELSE IF has_driver_cell(it.sig)
    THEN [it EXCEPT !.emitted = Append(@, sigbit_driver_map[it.sig])]
    ELSE [it EXCEPT !.status = "out_of_range"]

\* ------------------------------------------------------------ actions

\* ConeBegin whose begin() is already one ++ past the start bit.
ConeBegin_advanced(t, b) ==
    /\ iters[t].kind = "none"
    /\ \E it \in WireInc(NetlistConeWireIter("wire", sigmap[b])) :
          iters' = [iters EXCEPT ![t] = Yield(it)]
    /\ UNCHANGED <<netvars, synthvars>>

\* cone(net, sig).begin(): a bit-cone traversal starts at sigmap(sig).
ConeBegin(t, b) ==
    /\ iters[t].kind = "none"
    /\ iters' = [iters EXCEPT ![t] = Yield(NetlistConeWireIter("wire", sigmap[b]))]
    /\ UNCHANGED <<netvars, synthvars>>

\* cell_cone(net, sig).begin(): a cell-cone traversal starts at sigmap(sig).
CellConeBegin(t, b) ==
    /\ iters[t].kind = "none"
    /\ \E it \in NetlistConeCellIter(sigmap[b]) :
          iters' = [iters EXCEPT ![t] = Yield(it)]
    /\ UNCHANGED <<netvars, synthvars>>

\* The iterator with one more ++ counted, when it was not yet at end (a
\* range-for never increments at end; a caller's further ++ is not counted).
Counted(it) ==
    IF it.sentinel THEN it ELSE [it EXCEPT !.advances = @ + 1]

\* WireAdvance with cells_visited a static member: one set for all iterators.
WireAdvance_sharedvisited(t) ==
    /\ iters[t].kind = "wire"
    /\ iters[t].status = "ok"
    /\ \E it \in WireInc(Counted(iters[t])) :
          iters' = [u \in Iters |->
                      IF u = t THEN Yield(it)
                      ELSE IF iters[u].kind = "none" THEN iters[u]
                      ELSE [iters[u] EXCEPT !.cells_visited = it.cells_visited]]
    /\ UNCHANGED <<netvars, synthvars>>

\* ++it on a bit-cone iterator, and the loop test and operator* after it.
WireAdvance(t) ==
    /\ iters[t].kind = "wire"
    /\ iters[t].status = "ok"
    /\ \E it \in WireInc(Counted(iters[t])) :
          iters' = [iters EXCEPT ![t] = Yield(it)]
    /\ UNCHANGED <<netvars, synthvars>>

\* ++it on a cell-cone iterator, and the loop test and operator* after it.
CellAdvance(t) ==
    /\ iters[t].kind = "cell"
    /\ iters[t].status = "ok"
    /\ \E it \in CellInc(Counted(iters[t])) :
          iters' = [iters EXCEPT ![t] = Yield(it)]
    /\ UNCHANGED <<netvars, synthvars>>

\* The caller drops an iterator, exhausted or not.
Abandon(t) ==
    /\ iters[t].kind # "none"
    /\ iters[t].status = "ok"
    /\ iters' = [iters EXCEPT ![t] = NoIter]
    /\ UNCHANGED <<netvars, synthvars>>

RECURSIVE WireRun(_)
\* for (auto bit : cone(net, sig)) from the iterator it on: the states in
\* which the loop may end, at end() or where a ++ does not return.
WireRun(it) ==
    IF it.status # "ok" \/ it.sentinel THEN {it}
    ELSE UNION { WireRun(Yield(r)) : r \in WireInc(Counted(it)) }

\* A whole range-for over cone(net, sig), sig canonical.
ConeRuns(sig) == WireRun(Yield(NetlistConeWireIter("wire", sig)))

\* ------------------------------------------- SynthIntelPass (synth_intel)

\* The words an argument vector is made of: options, family names, -run
\* ranges and a module or file name.
OptionWords ==
    {"-family", "-top", "-vqm", "-run", "-nobram", "-noflatten", "-flatten",
     "-retime"}

FamilyWords == {"max10", "a10gx", "cyclonev", "cycloneiv", "cycloneive", "stratix"}

\* args[argidx+1].find(':') and the two substr calls, for the words that
\* hold a colon: the text before it and the text after it.
RunRanges ==
    [w \in {":", "flatten:coarse", "coarse:"} |->
        IF w = ":" THEN [from |-> "", to |-> ""]
        ELSE IF w = "flatten:coarse" THEN [from |-> "flatten", to |-> "coarse"]
        ELSE [from |-> "coarse", to |-> ""]]

Words == OptionWords \cup FamilyWords \cup DOMAIN RunRanges \cup {"top1"}

\* args[0] is the command name; at most MaxArgs words follow it.
ArgVectors ==
    { <<"synth_intel">> \o w : w \in UNION { [1..k -> Words] : k \in 0..MaxArgs } }

\* SynthIntelPass::clear_flags, with the locals run_from and run_to of
\* execute. top_opt is "-auto-top" or "-top " followed by a name.
clear_flags ==
    [top_opt |-> <<"-auto-top">>, family_opt |-> "max10", vout_file |-> "",
     retime |-> FALSE, flatten |-> TRUE, nobram |-> FALSE,
     run_from |-> "", run_to |-> ""]

RECURSIVE parse_args(_, _, _)
\* The argument loop of execute from position i (args[argidx] is a[i]) with
\* flags f: the flags and the position at which the loop ends.
parse_args(a, i, f) ==
    IF i > Len(a) THEN [flags |-> f, argidx |-> i]
    ELSE IF a[i] = "-family" /\ i + 1 <= Len(a)
    THEN parse_args(a, i + 2, [f EXCEPT !.family_opt = a[i + 1]])
    ELSE IF a[i] = "-top" /\ i + 1 <= Len(a)
    THEN parse_args(a, i + 2, [f EXCEPT !.top_opt = <<"-top", a[i + 1]>>])
    ELSE IF a[i] = "-vqm" /\ i + 1 <= Len(a)
    THEN parse_args(a, i + 2, [f EXCEPT !.vout_file = a[i + 1]])
    ELSE IF a[i] = "-run" /\ i + 1 <= Len(a)
    THEN IF a[i + 1] \notin DOMAIN RunRanges
         THEN [flags |-> f, argidx |-> i]
         ELSE parse_args(a, i + 2,
                         [f EXCEPT !.run_from = RunRanges[a[i + 1]].from,
                                   !.run_to = RunRanges[a[i + 1]].to])
    ELSE IF a[i] = "-nobram"
    THEN parse_args(a, i + 1, [f EXCEPT !.nobram = TRUE])
    ELSE IF a[i] = "-flatten"
    THEN parse_args(a, i + 1, [f EXCEPT !.flatten = TRUE])
    ELSE IF a[i] = "-retime"
    THEN parse_args(a, i + 1, [f EXCEPT !.retime = TRUE])
    ELSE [flags |-> f, argidx |-> i]

\* Pass::extra_args raises a command error when the first word the loop left
\* unread is an option; any other word is a selection argument.
extra_args_fails(a, i) == i <= Len(a) /\ a[i] \in OptionWords

\* The family test of execute that only tests that a family is named.
family_known_nonempty(f) == f.family_opt # ""

\* The family test of execute.
family_known(f) ==
    f.family_opt \in {"max10", "a10gx", "cyclonev", "cycloneiv", "cycloneive"}

\* A command handed to run(): its text and the words substituted into it.
Cmd(c, a) == [cmd |-> c, arg |-> a]

\* ScriptPass::check_label with a design active: st is block_active and
\* the commands run so far.
check_label(st, label, f) ==
    [st EXCEPT !.block_active =
        IF f.run_from # "" /\ f.run_from = f.run_to THEN label = f.run_from
        ELSE IF label = f.run_to THEN FALSE
        ELSE IF label = f.run_from THEN TRUE
        ELSE @]

\* ScriptPass::run with a design active.
run(st, c) == [st EXCEPT !.ran = Append(@, c)]

RECURSIVE run_all(_, _)
run_all(st, cs) == IF cs = << >> THEN st ELSE run_all(run(st, Head(cs)), Tail(cs))

\* The families the if chain of the begin block tests, in order.
FamilyChain == <<"max10", "a10gx", "cyclonev", "cycloneiv">>

RECURSIVE script_family(_, _, _)
\* The if / else if chain of the begin block from its i-th test on.
script_family(st, f, i) ==
    IF i > Len(FamilyChain)
    THEN run(st, Cmd("read_verilog -sv -lib cells_sim.v", <<"cycloneive">>))
    ELSE LET s == check_label(st, "family", f)
         IN  IF s.block_active /\ f.family_opt = FamilyChain[i]
             THEN run(s, Cmd("read_verilog -sv -lib cells_sim.v", <<FamilyChain[i]>>))
             ELSE script_family(s, f, i + 1)

script_begin(st, f) ==
    LET s == check_label(st, "begin", f)
    IN  IF s.block_active
        THEN run_all(script_family(s, f, 1),
                     <<Cmd("read_verilog -sv -lib m9k_bb.v", << >>),
                       Cmd("read_verilog -sv -lib altpll_bb.v", << >>),
                       Cmd("hierarchy -check", f.top_opt)>>)
        ELSE s

script_flatten(st, f) ==
    IF ~f.flatten THEN st
    ELSE LET s == check_label(st, "flatten", f)
         IN  IF s.block_active
             THEN run_all(s, <<Cmd("proc", << >>), Cmd("flatten", << >>),
                               Cmd("tribuf -logic", << >>), Cmd("deminout", << >>)>>)
             ELSE s

script_coarse(st, f) ==
    LET s == check_label(st, "coarse", f)
    IN  IF s.block_active THEN run(s, Cmd("synth -run coarse", << >>)) ELSE s

script_bram(st, f) ==
    IF f.nobram THEN st
    ELSE LET s == check_label(st, "bram", f)
         IN  IF s.block_active
             THEN run_all(s, <<Cmd("memory_bram -rules brams.txt", << >>),
                               Cmd("techmap -map brams_map.v", << >>)>>)
             ELSE s

script_fine(st, f) ==
    LET s == check_label(st, "fine", f)
    IN  IF s.block_active
        THEN run_all(s,
               <<Cmd("opt -fast -mux_undef -undriven -fine -full", << >>),
                 Cmd("memory_map", << >>),
                 Cmd("opt -undriven -fine", << >>),
                 Cmd("dffsr2dff", << >>),
                 Cmd("dff2dffe -direct-match $_DFF_*", << >>),
                 Cmd("opt -fine", << >>),
                 Cmd("techmap -map +/techmap.v", << >>),
                 Cmd("opt -full", << >>),
                 Cmd("clean -purge", << >>),
                 Cmd("setundef -undriven -zero", << >>)>>
               \o (IF f.retime THEN <<Cmd("abc -markgroups -dff", << >>)>>
                   ELSE << >>))
        ELSE s

script_map_luts(st, f) ==
    LET s == check_label(st, "map_luts", f)
        dff == IF f.retime THEN <<"-dff">> ELSE << >>
    IN  IF s.block_active
        THEN run_all(s,
               <<IF f.family_opt = "a10gx" \/ f.family_opt = "cyclonev"
                 THEN Cmd("abc -luts 2:2,3,6:5,10", dff)
                 ELSE Cmd("abc -lut 4", dff),
                 Cmd("clean", << >>)>>)
        ELSE s

script_map_cells(st, f) ==
    LET s == check_label(st, "map_cells", f)
    IN  IF s.block_active
        THEN run_all(s,
               <<Cmd("iopadmap -bits -outpad $__outpad I:O -inpad $__inpad O:I", << >>),
                 Cmd("techmap -map cells_map.v",
                     IF f.family_opt \in {"max10", "a10gx", "cyclonev", "cycloneiv"}
                     THEN <<f.family_opt>> ELSE <<"cycloneive">>),
                 Cmd("dffinit -ff dffeas Q INIT", << >>),
                 Cmd("clean -purge", << >>)>>)
        ELSE s

script_check(st, f) ==
    LET s == check_label(st, "check", f)
    IN  IF s.block_active
        THEN run_all(s, <<Cmd("hierarchy -check", << >>), Cmd("stat", << >>),
                          Cmd("check -noinit", << >>)>>)
        ELSE s

script_vqm(st, f) ==
    LET s == check_label(st, "vqm", f)
    IN  IF s.block_active /\ f.vout_file # ""
        THEN run(s, Cmd("write_verilog -attr2comment -defparam -nohex -decimal -renameprefix syn_",
                        <<f.vout_file>>))
        ELSE s

\* ScriptPass::run_script and SynthIntelPass::script: the commands run.
script(f) ==
    LET s0 == [block_active |-> f.run_from = "", ran |-> << >>]
        s1 == script_begin(s0, f)
        s2 == script_flatten(s1, f)
        s3 == script_coarse(s2, f)
        s4 == script_bram(s3, f)
        s5 == script_fine(s4, f)
        s6 == script_map_luts(s5, f)
        s7 == script_map_cells(s6, f)
        s8 == script_check(s7, f)
    IN  script_vqm(s8, f).ran

\* The pass before execute is called.
NoPass == [pc |-> "idle", flags |-> clear_flags, outcome |-> "none", ran |-> << >>]

\* SynthIntelPass::execute on argument vector a, with fs the value of
\* design->full_selection(): the flags it leaves, how it ends (a command
\* error, or the script run) and the commands the script ran.
execute(a, fs) ==
    LET p == parse_args(a, 2, clear_flags)
        f == p.flags
        failed == [pc |-> "done", flags |-> f, outcome |-> "cmd_error", ran |-> << >>]
    IN  IF extra_args_fails(a, p.argidx) THEN failed
        ELSE IF ~fs THEN failed
        ELSE IF ~family_known(f) THEN failed
        ELSE [pc |-> "done", flags |-> f, outcome |-> "script", ran |-> script(f)]

\* The synth_intel command is called.
Execute ==
    /\ pass.pc = "idle"
    /\ pass' = execute(args, full_selection)
    /\ UNCHANGED <<netvars, iters, args, full_selection>>

\* Netlist(module, ct): the index built over some module.
Init ==
    /\ module \in [Cells -> CellRecords]
    /\ sigmap \in SigMaps
    /\ sigbit_driver_map = setup_netlist(module, sigmap).drv
    /\ cell_inputs_map = setup_netlist(module, sigmap).inp
    /\ iters = [t \in Iters |-> NoIter]
    /\ args = <<"synth_intel">>
    /\ full_selection = TRUE
    /\ pass = NoPass

\* One caller, one iterator at a time.
Next ==
    \/ \E b \in Bits : ConeBegin(1, b)
    \/ \E b \in Bits : CellConeBegin(1, b)
    \/ WireAdvance(1)
    \/ CellAdvance(1)
    \/ Abandon(1)

Spec == Init /\ [][Next]_vars

\* The modules over which several iterators are interleaved: cells of known
\* type connected to the first ParBits bits.
ParCellRecords ==
    [type : {"$and"},
     conn : { [A |-> a, Y |-> y] : a \in AscSeqs(1..ParBits, MaxWidth),
                                      y \in AscSeqs(1..ParBits, MaxOutWidth) }]

InitPar ==
    /\ module \in [Cells -> ParCellRecords]
    /\ sigmap \in SigMaps
    /\ sigbit_driver_map = setup_netlist(module, sigmap).drv
    /\ cell_inputs_map = setup_netlist(module, sigmap).inp
    /\ iters = [t \in Iters |-> NoIter]
    /\ args = <<"synth_intel">>
    /\ full_selection = TRUE
    /\ pass = NoPass

\* Several callers, each with an iterator over the one shared Netlist, in
\* any interleaving of their steps.
NextPar ==
    \E t \in Iters :
        \/ \E b \in 1..ParBits : ConeBegin(t, b)
        \/ \E b \in 1..ParBits : CellConeBegin(t, b)
        \/ WireAdvance(t)
        \/ CellAdvance(t)
        \/ Abandon(t)

SpecPar == InitPar /\ [][NextPar]_vars

\* synth_intel called with some argument vector, on a design over which no
\* Netlist is built.
InitSynth ==
    /\ module = [c \in Cells |-> [type |-> "blackbox",
                                   conn |-> [A |-> << >>, Y |-> << >>]]]
    /\ sigmap = [b \in Bits |-> b]
    /\ sigbit_driver_map = setup_netlist(module, sigmap).drv
    /\ cell_inputs_map = setup_netlist(module, sigmap).inp
    /\ iters = [t \in Iters |-> NoIter]
    /\ args \in ArgVectors
    /\ full_selection \in BOOLEAN
    /\ pass = NoPass

NextSynth == Execute

SpecSynth == InitSynth /\ [][NextSynth]_vars

\* --------------------------------------------------------- vocabulary

\* The elements of a sequence.
Range(s) == { s[i] : i \in 1..Len(s) }

NoDuplicates(s) == \A i \in 1..Len(s) : \A j \in 1..Len(s) : s[i] = s[j] => i = j

\* One backward step from the bits of S: the input bits of their drivers.
Back(S) ==
    UNION { cell_inputs_map[sigbit_driver_map[x]] :
              x \in { y \in S : /\ y \in DOMAIN sigbit_driver_map
                                 /\ sigbit_driver_map[y] \in DOMAIN cell_inputs_map } }

RECURSIVE BackClosure(_)
\* The least set that holds S and is closed under backward steps.
BackClosure(S) ==
    LET N == S \cup Back(S) IN IF N = S THEN S ELSE BackClosure(N)

\* The bits one or more backward steps away from b.
Reach(b) == BackClosure(Back({b}))

\* No bit is in its own fan-in.
Acyclic == \A b \in Bits : b \notin Reach(b)

\* The cells in the transitive fan-in of b: the driver of b and the drivers
\* of the bits reachable from b.
FanInCells(b) ==
    { sigbit_driver_map[x] : x \in (Reach(b) \cup {b}) \cap DOMAIN sigbit_driver_map }

\* The iterator in slot t is a bit-cone (cell-cone) traversal.
IsWire(t) == iters[t].kind = "wire"

IsCell(t) == iters[t].kind = "cell"

\* The range-for over the iterable has left its loop.
AtEnd(t) == iters[t].status = "ok" /\ iters[t].sentinel

\* b has a driver, and the driver has an input.
HasFirstInput(b) ==
    /\ b \in DOMAIN sigbit_driver_map
    /\ cell_inputs_map[sigbit_driver_map[b]] # {}

FirstInput(b) == InputsOf(sigbit_driver_map[b])[1]

\* ------------------------------------------------------------- claims

C3_ConeIsReachableSet ==
    Acyclic =>
        \A t \in Iters :
            IsWire(t) =>
                /\ iters[t].status = "ok"
                /\ Range(iters[t].emitted) \subseteq Reach(iters[t].start)
                /\ iters[t].sentinel =>
                      Range(iters[t].emitted) = Reach(iters[t].start)

\* C4 (as stated): cell_cone(index, b) emits exactly the cells in the
\* transitive fan-in of b, each once.
C4_CellConeIsFanIn ==
    \A t \in Iters :
        IsCell(t) =>
            /\ iters[t].status = "ok"
            /\ NoDuplicates(iters[t].emitted)
            /\ Range(iters[t].emitted) \subseteq FanInCells(iters[t].start)
            /\ iters[t].sentinel =>
                  Range(iters[t].emitted) = FanInCells(iters[t].start)

\* The number of input bits over all cells of the index.
RECURSIVE TotalInputs(_)
TotalInputs(C) ==
    IF C = {} THEN 0
    ELSE LET c == CHOOSE x \in C : TRUE
         IN  Cardinality(cell_inputs_map[c]) + TotalInputs(C \ {c})

\* C5 (as stated): every traversal reaches its end after finitely many
\* advances, and no advance loops forever: no ++ fails to return, and a
\* traversal not yet at end has made fewer advances than there are input
\* bits and cells in the index, plus one.
C5_Terminates ==
    \A t \in Iters :
        iters[t].kind # "none" =>
            /\ iters[t].status = "ok"
            /\ iters[t].advances
                  <= TotalInputs(DOMAIN cell_inputs_map)
                       + Cardinality(DOMAIN cell_inputs_map) + 1

\* C6 (as stated): two traversals made by cone (or by cell_cone) with the
\* same index and the same bit emit the same elements in the same order:
\* after equally many advances they have emitted the same sequence and are
\* both at end or both not.
C6_SameBitSameSequence ==
    \A t \in Iters : \A u \in Iters :
        /\ iters[t].kind # "none"
        /\ iters[t].kind = iters[u].kind
        /\ iters[t].start = iters[u].start
        /\ iters[t].advances = iters[u].advances
        => /\ iters[t].emitted = iters[u].emitted
           /\ iters[t].sentinel = iters[u].sentinel
           /\ iters[t].status = iters[u].status

\* begin() of the iterable of the given kind at canonical bit b, as the
\* range-for sees it.
BeginStates(kind, b) ==
    IF kind = "wire" THEN {Yield(NetlistConeWireIter("wire", b))}
    ELSE { Yield(it) : it \in NetlistConeCellIter(b) }

\* The states one counted ++ may take an iterator to.
AdvanceStates(it) ==
    IF it.status # "ok" \/ it.sentinel THEN {}
    ELSE IF it.kind = "wire" THEN { Yield(r) : r \in WireInc(Counted(it)) }
    ELSE { Yield(r) : r \in CellInc(Counted(it)) }

\* The step takes the iterator of slot t from a state to a state that the
\* same traversal, with no other iterator alive, can go to from it.
StepAsAlone(t) ==
    \/ iters'[t] = iters[t]
    \/ iters'[t] = NoIter
    \/ /\ iters[t].kind = "none"
       /\ \E kind \in {"wire", "cell"} : \E b \in Bits :
             iters'[t] \in BeginStates(kind, sigmap[b])
    \/ iters'[t] \in AdvanceStates(iters[t])

\* C7: in any interleaving of the steps of several traversals over one
\* index, no step changes the index, a step of one traversal changes no
\* other traversal's state (current bit, frame stack, visited cells, what it
\* has emitted), and the traversal that steps goes where it goes when run
\* alone from the state it is in.
C7_NoInterference ==
    [][ /\ netvars' = netvars
        /\ \A t \in Iters : \A u \in Iters :
              t # u /\ iters'[t] # iters[t] => iters'[u] = iters[u]
        /\ \A t \in Iters : StepAsAlone(t) ]_vars

\* C7 witness: two traversals over the same index are both under way, with
\* frames on their stacks, at different positions.
C7_Witness ==
    \E t \in Iters : \E u \in Iters :
        /\ t # u
        /\ iters[t].kind = "wire" /\ iters[u].kind = "cell"
        /\ iters[t].status = "ok" /\ iters[u].status = "ok"
        /\ ~iters[t].sentinel /\ ~iters[u].sentinel
        /\ iters[t].advances >= 2 /\ iters[u].advances >= 1
        /\ iters[t].dfs_path_stack # << >> /\ iters[u].dfs_path_stack # << >>
        /\ iters[t].cells_visited # iters[u].cells_visited

\* The cells of known type that have canonical bit z on an output port.
DriversOf(z) ==
    { c \in Cells : /\ cell_known(module[c].type)
                    /\ \E p \in DOMAIN module[c].conn :
                          /\ cell_output(module[c].type, p)
                          /\ \E i \in 1..Len(module[c].conn[p]) :
                                sigmap[module[c].conn[p][i]] = z }

\* The canonical bits on the ports of cell c that are not output ports.
NonOutputBits(c) ==
    { z \in Bits :
        \E p \in DOMAIN module[c].conn :
            /\ ~cell_output(module[c].type, p)
            /\ \E i \in 1..Len(module[c].conn[p]) :
                  sigmap[module[c].conn[p][i]] = z }

\* C8: a bit is a key of driver_of iff it is the canonical form of a bit on
\* an output port of a cell of known type; a cell is a key of inputs_of iff
\* its type is known, and inputs_of[cell] is the set of canonical bits on
\* its non-output ports.
C8_IndexContents ==
    /\ \A z \in Bits : z \in DOMAIN sigbit_driver_map <=> DriversOf(z) # {}
    /\ DOMAIN sigbit_driver_map \subseteq Bits
    /\ \A c \in Cells : c \in DOMAIN cell_inputs_map <=> cell_known(module[c].type)
    /\ DOMAIN cell_inputs_map \subseteq Cells
    /\ \A c \in DOMAIN cell_inputs_map : cell_inputs_map[c] = NonOutputBits(c)

\* C8 witness: the index of a module with a cell of unknown type that has
\* bits on both ports, beside a cell of known type whose ports carry an
\* aliased bit.
C8_Witness ==
    /\ \E c \in Cells :
          /\ ~cell_known(module[c].type)
          /\ module[c].conn.Y # << >>
          /\ module[c].conn.A # << >>
          /\ sigmap[module[c].conn.Y[1]] \notin DOMAIN sigbit_driver_map
    /\ \E c \in Cells :
          /\ cell_known(module[c].type)
          /\ module[c].conn.Y # << >>
          /\ \E i \in 1..Len(module[c].conn.A) :
                sigmap[module[c].conn.A[i]] # module[c].conn.A[i]

\* C9: when several cells of known type have canonical bit z on an output
\* port, driver_of[z] is the last of them in enumeration order, and each of
\* them has its entry in inputs_of.
C9_LastDriverWins ==
    \A z \in Bits :
        Cardinality(DriversOf(z)) >= 2 =>
            /\ z \in DOMAIN sigbit_driver_map
            /\ sigbit_driver_map[z] \in DriversOf(z)
            /\ \A c \in DriversOf(z) : c <= sigbit_driver_map[z]
            /\ DriversOf(z) \subseteq DOMAIN cell_inputs_map

\* C9 witness: two cells of known type drive the same canonical bit, one of
\* them through an alias.
C9_Witness ==
    \E z \in Bits :
        /\ Cardinality(DriversOf(z)) >= 2
        /\ \E c \in DriversOf(z) : module[c].conn.Y[1] # z

\* The commands of the flatten stage.
FlattenStage == {"proc", "flatten", "tribuf -logic", "deminout"}

\* C10 (as stated): for every argument vector that holds -noflatten, given
\* to execute on a fully selected design, execute accepts it and runs the
\* script with flatten false, so that no command of the flatten stage is
\* run.
C10_NoflattenSkipsFlatten ==
    pass.pc = "done" /\ full_selection /\ "-noflatten" \in Range(args) =>
        /\ pass.outcome = "script"
        /\ ~pass.flags.flatten
        /\ \A i \in 1..Len(pass.ran) : pass.ran[i].cmd \notin FlattenStage

\* The family names synth_intel documents.
Families == {"max10", "a10gx", "cyclonev", "cycloneiv", "cycloneive"}

\* C11: the script is run only when the selected family is one of max10,
\* a10gx, cyclonev, cycloneiv, cycloneive, which is max10 when the argument
\* vector holds no -family; with any other family execute ends with a
\* command error and no script command has been run.
C11_ScriptOnlyForKnownFamily ==
    pass.pc = "done" =>
        /\ pass.outcome = "script" => pass.flags.family_opt \in Families
        /\ pass.flags.family_opt \notin Families =>
              pass.outcome = "cmd_error" /\ pass.ran = << >>
        /\ "-family" \notin Range(args) => pass.flags.family_opt = "max10"
        /\ pass.outcome = "script" =>
              /\ pass.ran # << >>
              /\ pass.flags.run_from = "" =>
                    pass.ran[1].arg = <<pass.flags.family_opt>>

\* C11 witness: execute has read every argument of a vector that selects a
\* family outside the list, on a fully selected design, and ended with a
\* command error.
C11_Witness ==
    /\ pass.pc = "done"
    /\ full_selection
    /\ args = <<"synth_intel", "-nobram", "-family", "stratix">>
    /\ pass.flags.family_opt = "stratix"
    /\ pass.flags.nobram
    /\ pass.outcome = "cmd_error"

\* The current bit of the traversal in slot t has a driver that is not yet
\* visited and has no input bit.
AtEmptyDriver(t) ==
    /\ IsWire(t)
    /\ iters[t].status = "ok"
    /\ ~iters[t].sentinel
    /\ iters[t].sig \in DOMAIN sigbit_driver_map
    /\ sigbit_driver_map[iters[t].sig] \notin iters[t].cells_visited
    /\ cell_inputs_map[sigbit_driver_map[iters[t].sig]] = {}

\* C12 (as stated): when the driver of the current bit is unvisited and has
\* an empty input set, the advance returns without reading past the end of
\* that set, leaves no frame of that cell on the stack, and either ends the
\* traversal, emitting nothing, or emits the next pending input of the
\* nearest enclosing frame that has one.
C12_EmptyFramePopped ==
    [][ \A t \in Iters :
          AtEmptyDriver(t) /\ iters'[t] # iters[t] /\ iters'[t].kind = "wire" =>
              LET new == iters'[t]
                  n   == Len(new.dfs_path_stack)
              IN  /\ new.status = "ok"
                  /\ \A i \in 1..n :
                        new.dfs_path_stack[i].cell # sigbit_driver_map[iters[t].sig]
                  /\ n <= Len(iters[t].dfs_path_stack)
                  /\ \/ new.sentinel /\ n = 0 /\ new.emitted = iters[t].emitted
                     \/ /\ ~new.sentinel
                        /\ n > 0
                        /\ new.dfs_path_stack[n].pos
                              <= Len(InputsOf(new.dfs_path_stack[n].cell))
                        /\ new.sig = InputsOf(new.dfs_path_stack[n].cell)
                                        [new.dfs_path_stack[n].pos]
                        /\ new.emitted = Append(iters[t].emitted, new.sig) ]_vars

\* How often x occurs in the sequence s.
Count(s, x) == Cardinality({ i \in 1..Len(s) : s[i] = x })

\* Cell ca drives bit x and consumes only bit y, cell cb drives bit y and
\* consumes only bit x: the two-cell combinational loop.
TwoCellLoop(ca, cb, x, y) ==
    /\ ca # cb /\ x # y
    /\ x \in DOMAIN sigbit_driver_map /\ sigbit_driver_map[x] = ca
    /\ y \in DOMAIN sigbit_driver_map /\ sigbit_driver_map[y] = cb
    /\ cell_inputs_map[ca] = {y}
    /\ cell_inputs_map[cb] = {x}

\* C13: in a bit-cone traversal a frame is pushed for each cell at most
\* once, and no two frames of the stack belong to one cell; over the
\* two-cell loop the traversal from the bit the first cell drives ends,
\* has emitted the other bit and has pushed a frame for the first cell
\* exactly once (and after its first advance it has done so already).
C13_EachCellExpandedOnce ==
    \A t \in Iters :
        IsWire(t) =>
            /\ \A c \in Cells : Count(iters[t].expanded, c) <= 1
            /\ \A i \in 1..Len(iters[t].dfs_path_stack) :
                  \A j \in 1..Len(iters[t].dfs_path_stack) :
                      iters[t].dfs_path_stack[i].cell = iters[t].dfs_path_stack[j].cell
                          => i = j
            /\ \A ca \in Cells : \A cb \in Cells : \A y \in Bits :
                  TwoCellLoop(ca, cb, iters[t].start, y) =>
                      /\ iters[t].status = "ok"
                      /\ iters[t].advances <= 3
                      /\ iters[t].advances >= 1 => Count(iters[t].expanded, ca) = 1
                      /\ iters[t].advances >= 3 => iters[t].sentinel
                      /\ iters[t].sentinel =>
                            /\ y \in Range(iters[t].emitted)
                            /\ iters[t].expanded = <<ca, cb>>

\* C13 witness: the traversal over a two-cell loop has ended, having come
\* back to its start bit through both cells.
C13_Witness ==
    \E t \in Iters : \E ca \in Cells : \E cb \in Cells : \E y \in Bits :
        /\ IsWire(t)
        /\ TwoCellLoop(ca, cb, iters[t].start, y)
        /\ AtEnd(t)
        /\ iters[t].emitted = <<iters[t].start, y, iters[t].start>>
        /\ iters[t].cells_visited = {ca, cb}

\* The position of the first occurrence of x in s, or Len(s) + 1.
FirstIndex(s, x) ==
    IF x \in Range(s) THEN CHOOSE i \in 1..Len(s) :
                              s[i] = x /\ \A j \in 1..(i - 1) : s[j] # x
    ELSE Len(s) + 1

\* c1 = AND(in0, in1) -> w1 and c2 = AND(w1, in2) -> out, and nothing else
\* is driven.
TwoAndChain(c1, c2, in0, in1, in2, w1, out) ==
    /\ c1 # c2
    /\ Cardinality({in0, in1, in2, w1, out}) = 5
    /\ DOMAIN sigbit_driver_map = {w1, out}
    /\ sigbit_driver_map[w1] = c1 /\ cell_inputs_map[c1] = {in0, in1}
    /\ sigbit_driver_map[out] = c2 /\ cell_inputs_map[c2] = {w1, in2}

\* C14 (as stated): the bit-cone traversal is pre-order depth-first. When
\* the current bit has an unvisited driver, the advance emits the first
\* input of that driver; every bit emitted after the start is the pending
\* input of the innermost frame, so the bits of a cell's sub-walk precede
\* the next sibling of the enclosing frame; and over c1 = AND(in0, in1) ->
\* w1, c2 = AND(w1, in2) -> out the traversal from out ends having emitted
\* exactly the set {w1, in2, in0, in1}, w1 before in0 and in1.
C14_PreOrderDepthFirst ==
    \A t \in Iters :
        IsWire(t) =>
            LET it == iters[t]
                n  == Len(it.dfs_path_stack)
            IN  /\ it.status = "ok"
                /\ /\ ~it.sentinel
                   /\ it.sig \in DOMAIN sigbit_driver_map
                   /\ sigbit_driver_map[it.sig] \notin it.cells_visited
                   => \A r \in AdvanceStates(it) :
                         /\ r.status = "ok"
                         /\ InputsOf(sigbit_driver_map[it.sig]) # << >>
                         /\ r.emitted =
                              Append(it.emitted, InputsOf(sigbit_driver_map[it.sig])[1])
                /\ ~it.sentinel /\ it.advances >= 1 =>
                      /\ n > 0
                      /\ it.dfs_path_stack[n].pos <= Len(InputsOf(it.dfs_path_stack[n].cell))
                      /\ it.sig = InputsOf(it.dfs_path_stack[n].cell)[it.dfs_path_stack[n].pos]
                /\ \A c1 \in Cells : \A c2 \in Cells :
                   \A in0 \in Bits : \A in1 \in Bits : \A in2 \in Bits : \A w1 \in Bits :
                      /\ TwoAndChain(c1, c2, in0, in1, in2, w1, it.start)
                      /\ it.sentinel
                      => /\ Range(it.emitted) = {w1, in2, in0, in1}
                         /\ FirstIndex(it.emitted, w1) < FirstIndex(it.emitted, in0)
                         /\ FirstIndex(it.emitted, w1) < FirstIndex(it.emitted, in1)

\* s is an initial part of r.
IsPrefix(s, r) == Len(s) <= Len(r) /\ SubSeq(r, 1, Len(s)) = s

\* C15 (as stated): cell_cone(index, b) emits the cells in the order in
\* which a bit-cone traversal from b marks cells visited: what it has
\* emitted so far is an initial part of that order, and all of it at end;
\* over c1 = AND(in0, in1) -> w1, c2 = AND(w1, in2) -> out the traversal
\* from out emits c2 then c1.
C15_CellOrderIsDiscoveryOrder ==
    \A t \in Iters :
        IsCell(t) =>
            LET it == iters[t]
            IN  /\ it.status = "ok"
                /\ \A r \in ConeRuns(it.start) :
                      /\ r.status = "ok"
                      /\ IsPrefix(it.emitted, r.expanded)
                      /\ it.sentinel => it.emitted = r.expanded
                /\ \A c1 \in Cells : \A c2 \in Cells :
                   \A in0 \in Bits : \A in1 \in Bits : \A in2 \in Bits : \A w1 \in Bits :
                      /\ TwoAndChain(c1, c2, in0, in1, in2, w1, it.start)
                      /\ it.sentinel
                      => it.emitted = <<c2, c1>>

\* The cells that drive a bit of S.
DriverCells(S) == { sigbit_driver_map[x] : x \in S \cap DOMAIN sigbit_driver_map }

\* C16 (as stated): both traversals from b end, and the number of cells
\* cell_cone(index, b) has emitted at end is the number of distinct cells
\* that drive b or a bit emitted by cone(index, b).
C16_CellCountIsDriverCount ==
    \A t \in Iters :
        IsCell(t) =>
            /\ iters[t].status = "ok"
            /\ \A r \in ConeRuns(iters[t].start) :
                  /\ r.status = "ok"
                  /\ iters[t].sentinel =>
                        Len(iters[t].emitted)
                          = Cardinality(DriverCells(Range(r.emitted)
                                                      \cup {iters[t].start}))

\* The cells in the fan-in of b that have bit x in their input set.
ConsumersIn(b, x) == { c \in FanInCells(b) : x \in cell_inputs_map[c] }

\* C17: where every cell in the fan-in of b has an input bit, a bit x other
\* than b is emitted by cone(index, b) once for each cell of the fan-in of b
\* that has x in its input set: never more often while the traversal is
\* under way, and exactly that often when it has ended.
C17_OncePerConsumingCell ==
    \A t \in Iters :
        /\ IsWire(t)
        /\ \A c \in FanInCells(iters[t].start) : cell_inputs_map[c] # {}
        => /\ iters[t].status = "ok"
           /\ \A x \in GarbageBits \ {iters[t].start} :
                 /\ Count(iters[t].emitted, x)
                       <= Cardinality(ConsumersIn(iters[t].start, x))
                 /\ iters[t].sentinel =>
                       Count(iters[t].emitted, x)
                         = Cardinality(ConsumersIn(iters[t].start, x))

\* C17 witness: a traversal has ended in which an undriven bit, consumed by
\* two cells of the fan-in, was emitted twice, beside a bit emitted once.
C17_Witness ==
    \E t \in Iters : \E x \in Bits : \E y \in Bits :
        /\ IsWire(t)
        /\ AtEnd(t)
        /\ x # iters[t].start /\ y # iters[t].start
        /\ x \notin DOMAIN sigbit_driver_map
        /\ Cardinality(ConsumersIn(iters[t].start, x)) = 2
        /\ Count(iters[t].emitted, x) = 2
        /\ Count(iters[t].emitted, y) = 1

\* C18: once a bit-cone traversal is done, a further advance leaves it done
\* and changes nothing: no frame is pushed, no cell is added to
\* cells_visited, the current bit stays and nothing more is emitted.
C18_DoneIsAbsorbing ==
    \A t \in Iters :
        /\ iters[t].kind # "none"
        /\ iters[t].status = "ok"
        /\ iters[t].sentinel
        => /\ WireInc(iters[t]) = {iters[t]}
           /\ \A r \in WireInc(iters[t]) : Yield(r) = iters[t]

\* C18 witness: a done traversal whose current bit has a driver (a visited
\* one), after frames were pushed and popped.
C18_Witness ==
    \E t \in Iters :
        /\ IsWire(t)
        /\ AtEnd(t)
        /\ iters[t].sig \in DOMAIN sigbit_driver_map
        /\ Cardinality(iters[t].cells_visited) >= 2
        /\ Len(iters[t].emitted) >= 3

\* C19: every cell that is a value of driver_of is a key of inputs_of, and
\* no traversal has failed to find the input set of a driver it expands:
\* every cell expanded so far was found in inputs_of.
C19_DriversHaveInputSets ==
    /\ \A b \in DOMAIN sigbit_driver_map :
          sigbit_driver_map[b] \in DOMAIN cell_inputs_map
    /\ \A t \in Iters :
          /\ iters[t].status # "out_of_range"
          /\ iters[t].cells_visited \subseteq DOMAIN cell_inputs_map

\* C19 witness: a traversal has looked up the input sets of two drivers,
\* one of them empty.
C19_Witness ==
    \E t \in Iters : \E c \in Cells :
        /\ iters[t].kind # "none"
        /\ Cardinality(iters[t].cells_visited) = 2
        /\ c \in iters[t].cells_visited
        /\ cell_inputs_map[c] = {}

\* C20: a cell-cone traversal that is not at end, right after construction
\* and after every advance that returned, stands at a bit that has a driver
\* which is not in cells_visited; the dereference has found that driver, and
\* it is a cell the traversal had not emitted before.
C20_CellDerefIsSafe ==
    \A t \in Iters :
        IsCell(t) =>
            /\ iters[t].status # "out_of_range"
            /\ iters[t].status = "ok" /\ ~iters[t].sentinel =>
                  /\ has_driver_cell(iters[t].sig)
                  /\ sigbit_driver_map[iters[t].sig] \notin iters[t].cells_visited
                  /\ iters[t].emitted # << >>
                  /\ iters[t].emitted[Len(iters[t].emitted)]
                        = sigbit_driver_map[iters[t].sig]
            /\ NoDuplicates(iters[t].emitted)

\* C20 witness: a cell-cone traversal whose start bit is the first input of
\* its own driver has advanced past that bit, the driver being visited, and
\* stands at the second input, at its second cell.
C20_Witness ==
    \E t \in Iters :
        /\ IsCell(t)
        /\ iters[t].status = "ok" /\ ~iters[t].sentinel
        /\ iters[t].advances = 1
        /\ Len(iters[t].emitted) = 2
        /\ Len(iters[t].dfs_path_stack) = 1
        /\ iters[t].dfs_path_stack[1].pos = 2
        /\ InputsOf(iters[t].dfs_path_stack[1].cell)[1] = iters[t].start

====
